---- MODULE Spec2Model ----
(***************************************************************************)
(* Model of the pixel driver of the Move38 tile                            *)
(* (src/cores/blinkcore/pixel.cpp): the double-buffered frame store, the   *)
(* five-phase overflow handler that multiplexes the six RGB pixels, the    *)
(* timer registers it programs, and the foreground API.                    *)
(*                                                                         *)
(* Execution model.  One foreground context runs the API calls; the        *)
(* timer-0 overflow handler preempts it between any two foreground steps   *)
(* and runs to completion before the foreground continues (one handler     *)
(* step is one action).  Statements take effect in program order.          *)
(* pixel_enable() and pixel_disable() are called by the foreground between *)
(* other calls, in the documented order (enable after init or disable).    *)
(*                                                                         *)
(* A second, statement-level model of the same code runs the handlers and  *)
(* the two power calls one register or memory access at a time, with the   *)
(* interrupt flags and the global interrupt enable between them: StepSpec  *)
(* with every handler returning before the next interrupt, NestSpec with   *)
(* handlers interrupted and re-entered.                                    *)
(***************************************************************************)
EXTENDS Integers, Sequences, FiniteSets, TLC

VARIABLES
    rawpixelsetbuffer,          \* [0..1 -> [0..5 -> rawpixel_t]]
    displayedRawPixelSet,       \* index of the buffer being displayed
    bufferedRawPixelSet,        \* index of the buffer foreground code updates
    currentPixelIndex,          \* pixel cursor of the overflow handler
    phase,                      \* phase cursor of the overflow handler
    pendingRawPixelBufferSwap,  \* the swap flag (0 or 1)
    reg,                        \* timer and port registers
    pc,                         \* where the foreground context is
    memcpyDst, memcpySrc,       \* arguments of the memcpy in progress
    memcpyPos,                  \* slots already copied by that memcpy
    nWrites, nRequests,         \* numbers of write / display calls made so far
    enableCalled,               \* pixel_enable() has been called
    nSwaps,                     \* exchanges performed by the handler
    nReturned,                  \* display calls that have returned
    waitSteps,                  \* handler steps run since the flag was set
    waited,                     \* a handler step has run and left the flag set
    lastWrite,                  \* per pixel, the value of the latest write
    lastRaw,                    \* <<pixel, r, g, b>> if the latest write was a raw one
    dirty,                      \* a write happened since the last display returned
    cleanDisplay,               \* the latest display call had no write before it
    shownAtSwap,                \* the displayed set's contents at the latest swap
    shownAtReturn,              \* ... when the latest display call returned
    shownBefore,                \* ... when the display call before that returned
    compare,                    \* compare values in effect in the running PWM cycle
    ovfSteps,                   \* overflow-handler steps run so far, modulo one scan
    flagChecks,                 \* times the flag was examined in the current scan
    disabled,                   \* the latest power call was pixel_disable()
    fresh,                      \* pixel_enable() was called and no handler step ran since
    dark,                       \* ... and no phase-1 handler step ran since
    resume,                     \* cursor stored by pixel_disable(), until the next handler step
    lastColor,                  \* <<pixel, colour>> if the latest write was a colour one
    colorOf,                    \* per pixel, the colour of the latest write (<<>> if none or raw)
    unshown,                    \* writes since the last display call returned
    shownWrites,                \* writes that preceded the latest returned display call
    lit,                        \* <<index, raw pixel>> read by the latest phase-1 handler step
    reqRoles,                   \* <<displayed, buffered>> when the latest display call set the flag
    tcntHalf,                   \* half of the PWM cycle the counters are in (1: at or past OCR2A)
    irqFlags,                   \* interrupt flags raised and not yet served
    sreg_I,                     \* global interrupt enable
    stack,                      \* frames of the handlers that have not returned, innermost last
    stmt,                       \* statements done of the pixelTimersOn() / pixelTimerOff() in progress
    periodLog,                  \* what the handlers did since the latest overflow
    periodFull,                 \* ... and that overflow happened with no handler running, since the release
    missed                      \* interrupts raised before the earlier handlers had returned

vars == <<rawpixelsetbuffer, displayedRawPixelSet, bufferedRawPixelSet,
          currentPixelIndex, phase, pendingRawPixelBufferSwap, reg, pc,
          memcpyDst, memcpySrc, memcpyPos, nWrites, nRequests, enableCalled, nSwaps,
          nReturned, waitSteps, waited, lastWrite, lastRaw, dirty, cleanDisplay,
          shownAtSwap, shownAtReturn, shownBefore, compare, ovfSteps,
          flagChecks, disabled, fresh, dark, resume, lastColor, colorOf,
          unshown, shownWrites, lit, reqRoles, tcntHalf, irqFlags, sreg_I,
          stack, stmt, periodLog, periodFull, missed>>

------------------------------------------------------------------------------
(* Program constants *)

PIXEL_COUNT == 6

RAW_PIXEL_SET_BUFFER_COUNT == 2

TIMER_PHASE_COUNT == 5

\* The compare value that keeps a channel off.
OFF == 255

(* Bounds of the model *)

\* Writes (setPixelRaw / setPixelColor) made in one behaviour.
MaxWrites == 2

\* displayBufferedPixels() calls made in one behaviour.
MaxDisplays == 2

\* waitSteps saturates here (one more than a full scan).
StepCap == 31

\* Handler steps of one full scan.
ScanSteps == PIXEL_COUNT * TIMER_PHASE_COUNT

Pixels == 0 .. (PIXEL_COUNT - 1)

Buffers == 0 .. (RAW_PIXEL_SET_BUFFER_COUNT - 1)

\* Pixel indices offered to the two write calls: first, middle and last.
PixelInputs == {0, 3, PIXEL_COUNT - 1}

\* Raw triples <<r, g, b>> offered to pixel_bufferedSetPixelRaw.
RawInputs == { <<7, 9, 128>> }

\* Colours <<r, g, b>> (each 0..31) offered to pixel_bufferedSetPixel.
ColorInputs == { <<31, 0, 0>> }

------------------------------------------------------------------------------
(* Data *)

rawpixel_t(r, g, b) == [rawValueR |-> r, rawValueG |-> g, rawValueB |-> b]

\* A pixel set with every slot holding the same raw pixel.
rawpixelset_t(p) == [j \in Pixels |-> p]

gamma8R == <<255,254,253,251,250,248,245,242,238,234,230,224,218,211,204,195,
             186,176,165,153,140,126,111,95,78,59,40,19,13,9,3,1>>

gamma8G == <<255,254,253,251,250,248,245,242,238,234,230,224,218,211,204,195,
             186,176,165,153,140,126,111,95,78,59,40,19,13,9,3,1>>

\* Variant of gamma8B with two neighbouring entries exchanged.
gamma8B_dip == <<255,254,253,251,250,248,245,242,238,234,230,224,218,211,204,195,
                 186,176,165,153,140,126,111,95,78,59,40,13,19,9,3,1>>

gamma8B == <<255,254,253,251,250,248,245,242,238,234,230,224,218,211,204,195,
             186,176,165,153,140,126,111,95,78,59,40,19,13,9,3,1>>

\* pgm_read_byte(&table[i]) for a C index i (the sequences are 1-based).
pgm_read_byte(table, i) == table[i + 1]

\* The values of one 5-bit colour component.
ColorLevels == 0 .. (Len(gamma8R) - 1)

\* Colours in which every component takes every one of its values, the
\* three components of a colour being different.
GammaInputs == { <<a, (a + 11) % Len(gamma8R), Len(gamma8R) - 1 - a>> :
                     a \in ColorLevels }

\* The set currently displayed / buffered, as contents.
Displayed == rawpixelsetbuffer[displayedRawPixelSet]

Buffered == rawpixelsetbuffer[bufferedRawPixelSet]

------------------------------------------------------------------------------
(* Timer hardware *)

\* Timer 0 counts when a clock is selected and the synchronised hold is off.
Timer0Counting == ("CS01" \in reg.TCCR0B) /\ ("TSM" \notin reg.GTCCR)

Timer2Counting == ("CS21" \in reg.TCCR2B) /\ ("TSM" \notin reg.GTCCR)

\* holdTimers(): the new value of GTCCR.
holdTimers(g) == g \cup {"TSM", "PSRASY", "PSRSYNC"}

\* releaseTimers(): clearing TSM also lets the hardware clear the two
\* prescaler-reset bits.
releaseTimers(g) == g \ {"TSM", "PSRASY", "PSRSYNC"}

\* deactivateAnodes(): the new value of the anode port bits.
deactivateAnodes(port) == port \ Pixels

\* activateAnode(line): the new value of the anode port bits.
activateAnode(port, line) == IF line \in Pixels THEN port \cup {line} ELSE port

\* Register file after reset, before any code of the driver has run.
ResetRegisters ==
    [ OCR0A |-> 0, OCR0B |-> 0, OCR2A |-> 0, OCR2B |-> 0,
      TCCR0A |-> {}, TCCR0B |-> {}, TCCR2A |-> {}, TCCR2B |-> {},
      GTCCR |-> {}, TIMSK0 |-> {}, TIMSK2 |-> {},
      PIXEL_PORT |-> {}, PIXEL_DDR |-> {},
      LED_RG_PORT |-> {}, LED_RG_DDR |-> {},
      LED_B_DDR |-> FALSE, BLUE_SINK_DDR |-> FALSE ]

\* The three compare registers proper (what the PWM hardware compares the
\* counters with) after reset.
ResetCompare == [R |-> 0, G |-> 0, B |-> 0]

\* At a counter overflow the values last written to OCR0A, OCR0B and OCR2B
\* become the compare values of the PWM cycle that starts.
LatchCompare(r) == [R |-> r.OCR0A, G |-> r.OCR0B, B |-> r.OCR2B]

\* setupPixelPins(): anode lines to output, red and green sinks high and output.
setupPixelPins(r) ==
    [r EXCEPT !.PIXEL_DDR = Pixels,
              !.LED_RG_PORT = {"R", "G"},
              !.LED_RG_DDR = {"R", "G"}]

\* setupTimers(): only the two interrupt masks are written.
setupTimers(r) ==
    [r EXCEPT !.TIMSK0 = {"TOIE0"},
              !.TIMSK2 = {"OCIE2A"}]

\* pixelTimersOn(): the registers once the function has returned.
pixelTimersOn(r) ==
    [r EXCEPT !.OCR0A = OFF,
              !.OCR0B = OFF,
              !.TCCR0A = {"WGM00", "WGM01", "COM0A1", "COM0B1"},
              !.TCCR2A = {"COM2B1", "WGM01", "WGM00"},
              !.OCR2A = 128,
              !.OCR2B = OFF,
              !.TCCR0B = {"CS01"},
              !.TCCR2B = {"CS21"},
              !.GTCCR = releaseTimers(holdTimers(r.GTCCR))]

\* The compare values in effect when pixelTimersOn() releases the counters,
\* given the registers r and the compare values c before the call.  OCR0A and
\* OCR0B are written while TCCR0A is as the caller left it: with the waveform
\* bits clear the write reaches the compare register at once, with them set it
\* waits for an overflow.  OCR2B is written after TCCR2A has selected fast PWM
\* and while the counter is stopped: the write waits in the buffer, and the
\* source does not settle whether the compare register has taken it by the
\* time the counters are released, so both outcomes are possible.
CompareAtRelease(r, c) ==
    { [R |-> IF "WGM00" \in r.TCCR0A THEN c.R ELSE OFF,
       G |-> IF "WGM00" \in r.TCCR0A THEN c.G ELSE OFF,
       B |-> b] : b \in {c.B, OFF} }

\* Variants of pixelTimerOff: the anodes left as they are, timer 0 left
\* running, timer 2 left running.
pixelTimerOff_anodesKept(r) ==
    [r EXCEPT !.TCCR0B = {},
              !.TCCR2B = {},
              !.TCCR0A = {},
              !.TCCR2A = {},
              !.BLUE_SINK_DDR = FALSE]

pixelTimerOff_timer0Running(r) ==
    [r EXCEPT !.PIXEL_PORT = deactivateAnodes(r.PIXEL_PORT),
              !.TCCR2B = {},
              !.TCCR0A = {},
              !.TCCR2A = {},
              !.BLUE_SINK_DDR = FALSE]

pixelTimerOff_timer2Running(r) ==
    [r EXCEPT !.TCCR0B = {},
              !.PIXEL_PORT = deactivateAnodes(r.PIXEL_PORT),
              !.TCCR0A = {},
              !.TCCR2A = {},
              !.BLUE_SINK_DDR = FALSE]

\* pixelTimerOff(): the registers once the function has returned.
pixelTimerOff(r) ==
    [r EXCEPT !.TCCR0B = {},
              !.PIXEL_PORT = deactivateAnodes(r.PIXEL_PORT),
              !.TCCR2B = {},
              !.TCCR0A = {},
              !.TCCR2A = {},
              !.BLUE_SINK_DDR = FALSE]

------------------------------------------------------------------------------
(* Initial state: the statics as the C start-up code leaves them. *)

Init ==
    /\ rawpixelsetbuffer = [i \in Buffers |-> rawpixelset_t(rawpixel_t(0, 0, 0))]
    /\ displayedRawPixelSet = 0
    /\ bufferedRawPixelSet = 1
    /\ currentPixelIndex = 0
    /\ phase = 0
    /\ pendingRawPixelBufferSwap = 0
    /\ reg = ResetRegisters
    /\ pc = "boot"
    /\ memcpyDst = 0
    /\ memcpySrc = 0
    /\ memcpyPos = 0
    /\ nWrites = 0
    /\ nRequests = 0
    /\ enableCalled = FALSE
    /\ nSwaps = 0
    /\ nReturned = 0
    /\ waitSteps = 0
    /\ waited = FALSE
    /\ lastWrite = rawpixelset_t(rawpixel_t(0, 0, 0))
    /\ lastRaw = <<>>
    /\ dirty = FALSE
    /\ cleanDisplay = FALSE
    /\ shownAtSwap = rawpixelset_t(rawpixel_t(0, 0, 0))
    /\ shownAtReturn = rawpixelset_t(rawpixel_t(0, 0, 0))
    /\ shownBefore = rawpixelset_t(rawpixel_t(0, 0, 0))
    /\ compare = ResetCompare
    /\ ovfSteps = 0
    /\ flagChecks = 0
    /\ disabled = FALSE
    /\ fresh = FALSE
    /\ dark = FALSE
    /\ resume = <<>>
    /\ lastColor = <<>>
    /\ colorOf = [j \in Pixels |-> <<>>]
    /\ unshown = 0
    /\ shownWrites = 0
    /\ lit = <<>>
    /\ reqRoles = <<0, 1>>
    /\ tcntHalf = 0
    /\ irqFlags = {}
    /\ sreg_I = TRUE
    /\ stack = <<>>
    /\ stmt = 0
    /\ periodLog = <<>>
    /\ periodFull = FALSE
    /\ missed = 0

------------------------------------------------------------------------------
(* Groups of variables *)

frameVars == <<rawpixelsetbuffer, displayedRawPixelSet, bufferedRawPixelSet>>

cursorVars == <<currentPixelIndex, phase>>

memcpyVars == <<memcpyDst, memcpySrc, memcpyPos>>

callVars == <<nWrites, nRequests, enableCalled>>

writeVars == <<lastWrite, lastRaw, dirty, lastColor, colorOf, unshown>>

returnVars == <<nReturned, cleanDisplay, shownAtReturn, shownBefore, shownWrites>>

\* The interrupt machinery of the statement-level specifications.
irqVars == <<tcntHalf, irqFlags, sreg_I, stack, stmt, periodLog, periodFull,
             missed>>

\* What only the handler and the two power calls change.
scanVars == <<compare, ovfSteps, flagChecks, disabled, fresh, dark, resume, lit>>

------------------------------------------------------------------------------
(* The overflow handler's pixel step, pixel_isr(), one case per phase.     *)
(* currentPixel is the slot of the displayed set at the pixel cursor.      *)

currentPixel == rawpixelsetbuffer[displayedRawPixelSet][currentPixelIndex]

\* uint8_t increment.
Inc8(x) == (x + 1) % 256

\* Phase 0: anodes off; if the pixel has blue, connect timer 2 to the blue
\* pin, drive the pin and enable the pump sink.
case0 ==
    /\ phase = 0
    /\ reg' = IF currentPixel.rawValueB # OFF
              THEN [reg EXCEPT !.PIXEL_PORT = deactivateAnodes(@),
                               !.TCCR2A = {"COM2B1", "WGM01", "WGM00"},
                               !.LED_B_DDR = TRUE,
                               !.BLUE_SINK_DDR = TRUE]
              ELSE [reg EXCEPT !.PIXEL_PORT = deactivateAnodes(@)]
    /\ phase' = Inc8(phase)
    /\ UNCHANGED <<currentPixelIndex, displayedRawPixelSet, bufferedRawPixelSet,
                   pendingRawPixelBufferSwap>>

\* Variant of case1 that loads blue from the green field.
case1_greenField ==
    /\ phase = 1
    /\ reg' = [reg EXCEPT !.BLUE_SINK_DDR = FALSE,
                          !.PIXEL_PORT = activateAnode(@, currentPixelIndex),
                          !.OCR2B = currentPixel.rawValueG]
    /\ phase' = Inc8(phase)
    /\ UNCHANGED <<currentPixelIndex, displayedRawPixelSet, bufferedRawPixelSet,
                   pendingRawPixelBufferSwap>>

\* Phase 1: pump sink off, anode of the current pixel on, blue loaded.
case1 ==
    /\ phase = 1
    /\ reg' = [reg EXCEPT !.BLUE_SINK_DDR = FALSE,
                          !.PIXEL_PORT = activateAnode(@, currentPixelIndex),
                          !.OCR2B = currentPixel.rawValueB]
    /\ phase' = Inc8(phase)
    /\ UNCHANGED <<currentPixelIndex, displayedRawPixelSet, bufferedRawPixelSet,
                   pendingRawPixelBufferSwap>>

\* Variant of case2 that leaves the blue compare value loaded.
case2_blueKept ==
    /\ phase = 2
    /\ reg' = [reg EXCEPT !.OCR0A = currentPixel.rawValueR]
    /\ phase' = Inc8(phase)
    /\ UNCHANGED <<currentPixelIndex, displayedRawPixelSet, bufferedRawPixelSet,
                   pendingRawPixelBufferSwap>>

\* Phase 2: blue off and red loaded for the next cycle.
case2 ==
    /\ phase = 2
    /\ reg' = [reg EXCEPT !.OCR2B = OFF,
                          !.OCR0A = currentPixel.rawValueR]
    /\ phase' = Inc8(phase)
    /\ UNCHANGED <<currentPixelIndex, displayedRawPixelSet, bufferedRawPixelSet,
                   pendingRawPixelBufferSwap>>

\* Phase 3: blue pin floated, timer 2 disconnected from it, red off and
\* green loaded for the next cycle.
case3 ==
    /\ phase = 3
    /\ reg' = [reg EXCEPT !.LED_B_DDR = FALSE,
                          !.TCCR2A = {"WGM01", "WGM00"},
                          !.OCR0A = OFF,
                          !.OCR0B = currentPixel.rawValueG]
    /\ phase' = Inc8(phase)
    /\ UNCHANGED <<currentPixelIndex, displayedRawPixelSet, bufferedRawPixelSet,
                   pendingRawPixelBufferSwap>>

\* Variant of NextPixelIndex that wraps one pixel early.
NextPixelIndex_early(i) == IF Inc8(i) = PIXEL_COUNT - 1 THEN 0 ELSE Inc8(i)

\* The pixel cursor after phase 4: incremented, and 0 once it reaches PIXEL_COUNT.
NextPixelIndex(i) == IF Inc8(i) = PIXEL_COUNT THEN 0 ELSE Inc8(i)

\* Variants of SwapNow with a slip in the condition: the wraparound test
\* left out, the flag test left out, the cursor compared before its increment.
SwapNow_anyPixel(i, pending) == pending # 0

SwapNow_anyFrame(i, pending) == Inc8(i) = PIXEL_COUNT

SwapNow_stale(i, pending) == (i = PIXEL_COUNT) /\ (pending # 0)

\* Whether phase 4 runs its swap block: the cursor wrapped and the flag is set.
SwapNow(i, pending) == (Inc8(i) = PIXEL_COUNT) /\ (pending # 0)

\* Variant of SwappedRoles without the temporary.
SwappedRoles_noTemp(d, b) == <<b, b>>

\* The swap block: <<displayed, buffered>> after the exchange through temp.
SwappedRoles(d, b) == <<b, d>>

\* Phase 4: green off for the next cycle, cursor to the next pixel, and the
\* exchange of the two roles at the wraparound if one was requested.
case4 ==
    /\ phase = 4
    /\ reg' = [reg EXCEPT !.OCR0B = OFF]
    /\ phase' = 0
    /\ currentPixelIndex' = NextPixelIndex(currentPixelIndex)
    /\ IF SwapNow(currentPixelIndex, pendingRawPixelBufferSwap)
       THEN /\ displayedRawPixelSet' =
                   SwappedRoles(displayedRawPixelSet, bufferedRawPixelSet)[1]
            /\ bufferedRawPixelSet' =
                   SwappedRoles(displayedRawPixelSet, bufferedRawPixelSet)[2]
            /\ pendingRawPixelBufferSwap' = 0
       ELSE UNCHANGED <<displayedRawPixelSet, bufferedRawPixelSet,
                        pendingRawPixelBufferSwap>>

pixel_isr == case0 \/ case1 \/ case2 \/ case3 \/ case4

\* Whether this handler step reaches the test of the swap flag: phase 4,
\* with the incremented pixel cursor equal to PIXEL_COUNT.
FlagExamined ==
    /\ phase = TIMER_PHASE_COUNT - 1
    /\ Inc8(currentPixelIndex) = PIXEL_COUNT

\* ISR(TIMER0_OVF_vect): taken when timer 0 counts and its overflow
\* interrupt is unmasked; runs pixel_isr().
Overflow ==
    /\ Timer0Counting
    /\ "TOIE0" \in reg.TIMSK0
    /\ pixel_isr
    /\ waited' = (pendingRawPixelBufferSwap' # 0)
    /\ nSwaps' = IF displayedRawPixelSet' # displayedRawPixelSet
                    \/ bufferedRawPixelSet' # bufferedRawPixelSet
                 THEN nSwaps + 1 ELSE nSwaps
    /\ shownAtSwap' = IF displayedRawPixelSet' # displayedRawPixelSet
                      THEN rawpixelsetbuffer[displayedRawPixelSet']
                      ELSE shownAtSwap
    /\ compare' = LatchCompare(reg)
    /\ ovfSteps' = (ovfSteps + 1) % ScanSteps
    /\ flagChecks' = (IF ovfSteps = 0 THEN 0 ELSE flagChecks)
                         + (IF FlagExamined THEN 1 ELSE 0)
    /\ fresh' = FALSE
    /\ dark' = (dark /\ phase # 1)
    /\ resume' = <<>>
    /\ lit' = IF phase = 1 THEN <<currentPixelIndex, currentPixel>> ELSE lit
    /\ UNCHANGED <<rawpixelsetbuffer, pc, memcpyVars, callVars, writeVars,
                   returnVars, disabled>>
    /\ UNCHANGED <<irqVars, reqRoles>>

TIMER0_OVF == Overflow /\ UNCHANGED waitSteps

\* ISR(TIMER2_COMPA_vect): taken when timer 2 counts and its compare-match
\* interrupt is unmasked; it runs the 256us callbacks only and touches
\* nothing of the driver.
TIMER2_COMPA ==
    /\ Timer2Counting
    /\ "OCIE2A" \in reg.TIMSK2
    /\ UNCHANGED vars

\* waitSteps after one more handler step.
CountStep(n) == IF n < StepCap THEN n + 1 ELSE n

\* The same handler, with the steps it runs while the flag is set counted
\* (from 0 again once the flag is clear).
TIMER0_OVF_counted ==
    /\ Overflow
    /\ waitSteps' = IF pendingRawPixelBufferSwap' # 0
                    THEN CountStep(waitSteps) ELSE 0

------------------------------------------------------------------------------
(* Foreground API *)

\* Variant of pixel_init that fills the first buffer only.
pixel_init_oneBuffer ==
    /\ pc = "boot"
    /\ rawpixelsetbuffer' =
           [rawpixelsetbuffer EXCEPT ![0] = rawpixelset_t(rawpixel_t(OFF, OFF, OFF))]
    /\ reg' = setupTimers(setupPixelPins(reg))
    /\ pc' = "idle"
    /\ lastWrite' = rawpixelset_t(rawpixel_t(OFF, OFF, OFF))
    /\ shownAtSwap' = rawpixelset_t(rawpixel_t(OFF, OFF, OFF))
    /\ shownAtReturn' = rawpixelset_t(rawpixel_t(OFF, OFF, OFF))
    /\ shownBefore' = rawpixelset_t(rawpixel_t(OFF, OFF, OFF))
    /\ UNCHANGED <<displayedRawPixelSet, bufferedRawPixelSet, cursorVars,
                   pendingRawPixelBufferSwap, memcpyVars, callVars, nSwaps,
                   nReturned, waitSteps, waited, lastRaw, dirty, cleanDisplay,
                   lastColor, colorOf, unshown, shownWrites, scanVars>>
    /\ UNCHANGED <<irqVars, reqRoles>>

\* pixel_init(): both buffers filled with the off value, pins and interrupt
\* masks set up.
pixel_init ==
    /\ pc = "boot"
    /\ rawpixelsetbuffer' =
           [i \in Buffers |-> rawpixelset_t(rawpixel_t(OFF, OFF, OFF))]
    /\ reg' = setupTimers(setupPixelPins(reg))
    /\ pc' = "idle"
    /\ lastWrite' = rawpixelset_t(rawpixel_t(OFF, OFF, OFF))
    /\ shownAtSwap' = rawpixelset_t(rawpixel_t(OFF, OFF, OFF))
    /\ shownAtReturn' = rawpixelset_t(rawpixel_t(OFF, OFF, OFF))
    /\ shownBefore' = rawpixelset_t(rawpixel_t(OFF, OFF, OFF))
    /\ UNCHANGED <<displayedRawPixelSet, bufferedRawPixelSet, cursorVars,
                   pendingRawPixelBufferSwap, memcpyVars, callVars, nSwaps,
                   nReturned, waitSteps, waited, lastRaw, dirty, cleanDisplay,
                   lastColor, colorOf, unshown, shownWrites, scanVars>>
    /\ UNCHANGED <<irqVars, reqRoles>>

\* Variant of EnablePixels that also restarts the scan at the first pixel.
EnablePixels_cursorReset ==
    /\ ~Timer0Counting
    /\ enableCalled' = TRUE
    /\ reg' = pixelTimersOn(reg)
    /\ compare' \in CompareAtRelease(reg, compare)
    /\ disabled' = FALSE
    /\ fresh' = TRUE
    /\ dark' = TRUE
    /\ currentPixelIndex' = 0
    /\ phase' = 0
    /\ UNCHANGED <<frameVars, pendingRawPixelBufferSwap, pc,
                   memcpyVars, nWrites, nRequests, nSwaps, waitSteps,
                   waited, writeVars, returnVars, shownAtSwap, ovfSteps,
                   flagChecks, resume, lit>>
    /\ UNCHANGED <<irqVars, reqRoles>>

\* pixel_enable(): pixelTimersOn().  Called as documented, after
\* pixel_init() or after pixel_disable().
EnablePixels ==
    /\ ~Timer0Counting
    /\ enableCalled' = TRUE
    /\ reg' = pixelTimersOn(reg)
    /\ compare' \in CompareAtRelease(reg, compare)
    /\ disabled' = FALSE
    /\ fresh' = TRUE
    /\ dark' = TRUE
    /\ UNCHANGED <<frameVars, cursorVars, pendingRawPixelBufferSwap, pc,
                   memcpyVars, nWrites, nRequests, nSwaps, waitSteps,
                   waited, writeVars, returnVars, shownAtSwap, ovfSteps,
                   flagChecks, resume, lit>>
    /\ UNCHANGED <<irqVars, reqRoles>>

\* pixel_disable(): pixelTimerOff().  Called while the pixels are enabled.
DisablePixels ==
    /\ Timer0Counting
    /\ reg' = pixelTimerOff(reg)
    /\ disabled' = TRUE
    /\ fresh' = FALSE
    /\ dark' = FALSE
    /\ resume' = <<currentPixelIndex, phase>>
    /\ UNCHANGED <<frameVars, cursorVars, pendingRawPixelBufferSwap, pc,
                   memcpyVars, callVars, nSwaps, waitSteps,
                   waited, writeVars, returnVars, shownAtSwap, compare,
                   ovfSteps, flagChecks, lit>>
    /\ UNCHANGED <<irqVars, reqRoles>>

\* The two calls made by the foreground between other calls.
pixel_enable == pc = "idle" /\ EnablePixels

pixel_disable == pc = "idle" /\ DisablePixels

\* The two calls made from a callback of the interrupt handlers while the
\* foreground is inside the busy-wait of pixel_displayBufferedPixels().
callback_pixel_enable == pc = "wait" /\ EnablePixels

callback_pixel_disable == pc = "wait" /\ DisablePixels

\* Variant of SetRawPixel with the green and blue stores crossed.
SetRawPixel_crossed(store, set, pixel, r, g, b) ==
    [store EXCEPT ![set][pixel] = rawpixel_t(r, b, g)]

\* The frame store after the three stores of a write into slot `pixel` of
\* pixel set `set`.
SetRawPixel(store, set, pixel, r, g, b) ==
    [store EXCEPT ![set][pixel] = rawpixel_t(r, g, b)]

\* pixel_bufferedSetPixelRaw(pixel, r_pwm, g_pwm, b_pwm)
pixel_bufferedSetPixelRaw(pixel, r_pwm, g_pwm, b_pwm) ==
    /\ pc = "idle"
    /\ nWrites < MaxWrites
    /\ nWrites' = nWrites + 1
    /\ rawpixelsetbuffer' = SetRawPixel(rawpixelsetbuffer, bufferedRawPixelSet,
                                        pixel, r_pwm, g_pwm, b_pwm)
    /\ lastWrite' = [lastWrite EXCEPT ![pixel] = rawpixel_t(r_pwm, g_pwm, b_pwm)]
    /\ lastRaw' = <<pixel, r_pwm, g_pwm, b_pwm>>
    /\ dirty' = TRUE
    /\ lastColor' = <<>>
    /\ colorOf' = [colorOf EXCEPT ![pixel] = <<>>]
    /\ unshown' = unshown + 1
    /\ UNCHANGED <<displayedRawPixelSet, bufferedRawPixelSet, cursorVars,
                   pendingRawPixelBufferSwap, reg, pc, memcpyVars, nRequests,
                   enableCalled, nSwaps, waitSteps, waited, returnVars,
                   shownAtSwap, scanVars>>
    /\ UNCHANGED <<irqVars, reqRoles>>

\* Variant of pixel_bufferedSetPixel that stores the colour as it is.
pixel_bufferedSetPixel_unmapped(pixel, newColor) ==
    /\ pc = "idle"
    /\ nWrites < MaxWrites
    /\ nWrites' = nWrites + 1
    /\ rawpixelsetbuffer' = SetRawPixel(rawpixelsetbuffer, bufferedRawPixelSet,
                                        pixel, newColor[1], newColor[2],
                                        newColor[3])
    /\ lastWrite' = [lastWrite EXCEPT ![pixel] =
                        rawpixelsetbuffer'[bufferedRawPixelSet][pixel]]
    /\ lastRaw' = <<>>
    /\ dirty' = TRUE
    /\ lastColor' = <<pixel, newColor>>
    /\ colorOf' = [colorOf EXCEPT ![pixel] = newColor]
    /\ unshown' = unshown + 1
    /\ UNCHANGED <<displayedRawPixelSet, bufferedRawPixelSet, cursorVars,
                   pendingRawPixelBufferSwap, reg, pc, memcpyVars, nRequests,
                   enableCalled, nSwaps, waitSteps, waited, returnVars,
                   shownAtSwap, scanVars>>
    /\ UNCHANGED <<irqVars, reqRoles>>

\* pixel_bufferedSetPixel(pixel, newColor): the raw values come from the
\* three gamma tables.
pixel_bufferedSetPixel(pixel, newColor) ==
    /\ pc = "idle"
    /\ nWrites < MaxWrites
    /\ nWrites' = nWrites + 1
    /\ rawpixelsetbuffer' = SetRawPixel(rawpixelsetbuffer, bufferedRawPixelSet,
                                        pixel,
                                        pgm_read_byte(gamma8R, newColor[1]),
                                        pgm_read_byte(gamma8G, newColor[2]),
                                        pgm_read_byte(gamma8B, newColor[3]))
    /\ lastWrite' = [lastWrite EXCEPT ![pixel] =
                        rawpixelsetbuffer'[bufferedRawPixelSet][pixel]]
    /\ lastRaw' = <<>>
    /\ dirty' = TRUE
    /\ lastColor' = <<pixel, newColor>>
    /\ colorOf' = [colorOf EXCEPT ![pixel] = newColor]
    /\ unshown' = unshown + 1
    /\ UNCHANGED <<displayedRawPixelSet, bufferedRawPixelSet, cursorVars,
                   pendingRawPixelBufferSwap, reg, pc, memcpyVars, nRequests,
                   enableCalled, nSwaps, waitSteps, waited, returnVars,
                   shownAtSwap, scanVars>>
    /\ UNCHANGED <<irqVars, reqRoles>>

\* pixel_displayBufferedPixels(), first statement: the flag is set.
display_request ==
    /\ pc = "idle"
    /\ nRequests < MaxDisplays
    /\ nRequests' = nRequests + 1
    /\ pendingRawPixelBufferSwap' = 1
    /\ pc' = "wait"
    /\ waitSteps' = 0
    /\ waited' = FALSE
    /\ UNCHANGED <<frameVars, cursorVars, reg, memcpyVars, nWrites, enableCalled,
                   nSwaps, writeVars, returnVars, shownAtSwap, scanVars>>
    /\ reqRoles' = <<displayedRawPixelSet, bufferedRawPixelSet>>
    /\ UNCHANGED irqVars

\* ... the busy-wait reads the flag as clear and memcpy is called with the
\* two references as they are now.
display_poll ==
    /\ pc = "wait"
    /\ pendingRawPixelBufferSwap = 0
    /\ pc' = "copy"
    /\ memcpyDst' = bufferedRawPixelSet
    /\ memcpySrc' = displayedRawPixelSet
    /\ memcpyPos' = 0
    /\ UNCHANGED <<frameVars, cursorVars, pendingRawPixelBufferSwap, reg,
                   callVars, nSwaps, waitSteps, waited, writeVars,
                   returnVars, shownAtSwap, scanVars>>
    /\ UNCHANGED <<irqVars, reqRoles>>

\* Variants of CopySlot: the arguments of memcpy exchanged, and no copy.
CopySlot_reversed(store, dst, src, pos) ==
    [store EXCEPT ![src][pos] = store[dst][pos]]

CopySlot_none(store, dst, src, pos) == store

\* The frame store after memcpy has copied slot `pos` of set `src` to set `dst`.
CopySlot(store, dst, src, pos) == [store EXCEPT ![dst][pos] = store[src][pos]]

\* ... memcpy copies one slot; after the last slot the call returns.
memcpy_step ==
    /\ pc = "copy"
    /\ memcpyPos < PIXEL_COUNT
    /\ rawpixelsetbuffer' = CopySlot(rawpixelsetbuffer, memcpyDst, memcpySrc,
                                     memcpyPos)
    /\ IF memcpyPos + 1 < PIXEL_COUNT
       THEN /\ memcpyPos' = memcpyPos + 1
            /\ UNCHANGED <<pc, memcpyDst, memcpySrc, nReturned, dirty,
                           cleanDisplay, shownAtReturn, shownBefore, unshown,
                           shownWrites>>
       ELSE /\ pc' = "idle"
            /\ memcpyPos' = 0
            /\ memcpyDst' = 0
            /\ memcpySrc' = 0
            /\ nReturned' = nReturned + 1
            /\ cleanDisplay' = (nReturned > 0 /\ ~dirty)
            /\ dirty' = FALSE
            /\ shownBefore' = shownAtReturn
            /\ shownAtReturn' = rawpixelsetbuffer'[displayedRawPixelSet]
            /\ shownWrites' = unshown
            /\ unshown' = 0
    /\ UNCHANGED <<displayedRawPixelSet, bufferedRawPixelSet, cursorVars,
                   pendingRawPixelBufferSwap, reg, callVars, nSwaps, waitSteps,
                   waited, lastWrite, lastRaw, shownAtSwap, lastColor, colorOf,
                   scanVars>>
    /\ UNCHANGED <<irqVars, reqRoles>>

------------------------------------------------------------------------------
(* Statement-level model.  The two handlers, pixelTimersOn() and           *)
(* pixelTimerOff() run one statement (one register or memory access) at a  *)
(* time, with the interrupt hardware between the statements: the counters  *)
(* raise the compare-match flag half way through a PWM cycle and the       *)
(* overflow flag at its end, a raised and unmasked flag is served before   *)
(* the next statement whenever the global interrupt enable is set, entry   *)
(* clears that enable and sei or the return sets it.  The callbacks the    *)
(* handlers invoke are recorded in periodLog and change nothing of the     *)
(* driver.  The history variables of the step-level model are left alone. *)

\* The pixel the foreground writes in the statement-level model.
StepPixelInputs == {3}

\* Interrupts that may be raised before the handlers of the earlier ones have
\* returned, in NestSpec.
MaxMissed == 2

historyVars == <<nSwaps, waitSteps, waited, shownAtSwap, writeVars, returnVars,
                 ovfSteps, flagChecks, disabled, fresh, dark, resume, lit>>

\* Variant of TIMER2_COMPA_vect that also invokes the per-overflow callback.
TIMER2_COMPA_vect_with512 ==
    <<"timer_256us_callback_cli", "sei", "timer_256us_callback_sei",
      "timer_512us_callback_sei", "reti">>

\* ISR(TIMER0_OVF_vect) and ISR(TIMER2_COMPA_vect): the statements of each
\* handler, in order, ending with its return.
TIMER0_OVF_vect ==
    <<"timer_256us_callback_cli", "sei", "pixel_isr",
      "timer_256us_callback_sei", "timer_512us_callback_sei", "reti">>

TIMER2_COMPA_vect ==
    <<"timer_256us_callback_cli", "sei", "timer_256us_callback_sei", "reti">>

\* The handler each interrupt flag is served by.
VectorOf(flag) == IF flag = "TOV0" THEN "TIMER0_OVF" ELSE "TIMER2_COMPA"

VectorBody(vec) ==
    IF vec = "TIMER0_OVF" THEN TIMER0_OVF_vect ELSE TIMER2_COMPA_vect

\* Variant of deactivateAnodes_stmts that leaves the last line out.
deactivateAnodes_stmts_fiveLines ==
    <<"CBI_PIXEL0", "CBI_PIXEL1", "CBI_PIXEL2", "CBI_PIXEL3", "CBI_PIXEL4">>

\* deactivateAnodes(): one CBI per anode line.
deactivateAnodes_stmts ==
    <<"CBI_PIXEL0", "CBI_PIXEL1", "CBI_PIXEL2", "CBI_PIXEL3", "CBI_PIXEL4",
      "CBI_PIXEL5">>

\* The anode line a CBI of deactivateAnodes() clears.
AnodeCleared ==
    [s \in {"CBI_PIXEL0", "CBI_PIXEL1", "CBI_PIXEL2", "CBI_PIXEL3",
            "CBI_PIXEL4", "CBI_PIXEL5"} |->
        CASE s = "CBI_PIXEL0" -> 0
          [] s = "CBI_PIXEL1" -> 1
          [] s = "CBI_PIXEL2" -> 2
          [] s = "CBI_PIXEL3" -> 3
          [] s = "CBI_PIXEL4" -> 4
          [] OTHER -> 5]

\* The statements of the five cases of pixel_isr(), in order.  phase++ is a
\* read followed by a write, currentPixelIndex++ likewise.
case0_stmts ==
    deactivateAnodes_stmts \o
    <<"if_blue", "TCCR2A_connect", "SBI_LED_B_DDR", "SBI_BLUE_SINK_DDR",
      "phase_read", "phase_write">>

\* Variant of case1_stmts that activates the anode before it disables the sink.
case1_stmts_anodeFirst ==
    <<"activateAnode", "CBI_BLUE_SINK_DDR", "OCR2B_load", "phase_read",
      "phase_write">>

case1_stmts ==
    <<"CBI_BLUE_SINK_DDR", "activateAnode", "OCR2B_load", "phase_read",
      "phase_write">>

case2_stmts == <<"OCR2B_off", "OCR0A_load", "phase_read", "phase_write">>

case3_stmts ==
    <<"CBI_LED_B_DDR", "TCCR2A_disconnect", "OCR0A_off", "OCR0B_load",
      "phase_read", "phase_write">>

\* Variant of case4_stmts that clears the flag before the exchange.
case4_stmts_clearFirst ==
    <<"OCR0B_off", "phase_zero", "index_read", "index_write", "if_wrapped",
      "index_zero", "if_pending", "pending_clear", "temp_load",
      "displayed_store", "buffered_store">>

case4_stmts ==
    <<"OCR0B_off", "phase_zero", "index_read", "index_write", "if_wrapped",
      "index_zero", "if_pending", "temp_load", "displayed_store",
      "buffered_store", "pending_clear">>

\* switch (phase): the statements of the case taken; no case for a value
\* outside 0..4.
CaseBlock(ph) ==
    CASE ph = 0 -> case0_stmts
      [] ph = 1 -> case1_stmts
      [] ph = 2 -> case2_stmts
      [] ph = 3 -> case3_stmts
      [] ph = 4 -> case4_stmts
      [] OTHER -> <<>>

\* Variant of pixelTimersOn_stmts that holds the counters only after the
\* clock of timer 0 has been selected.
pixelTimersOn_stmts_lateHold ==
    <<"OCR0A_off", "OCR0B_off", "TCNT0_zero", "FOC0A", "FOC0B", "TCCR0A_pwm",
      "TCCR2A_connect", "OCR2A_half", "OCR2B_off", "TCNT2_zero", "FOC2B",
      "TCCR0B_clock", "holdTimers", "TCCR2B_clock", "releaseTimers">>

\* pixelTimersOn(): its statements, in order.
pixelTimersOn_stmts ==
    <<"OCR0A_off", "OCR0B_off", "TCNT0_zero", "FOC0A", "FOC0B", "TCCR0A_pwm",
      "TCCR2A_connect", "OCR2A_half", "OCR2B_off", "TCNT2_zero", "FOC2B",
      "holdTimers", "TCCR0B_clock", "TCCR2B_clock", "releaseTimers">>

\* pixelTimerOff(): its statements, in order.
pixelTimerOff_stmts ==
    <<"TCCR0B_stop">> \o deactivateAnodes_stmts \o
    <<"TCCR2B_stop", "TCCR0A_clear", "TCCR2A_clear", "CBI_BLUE_SINK_DDR">>

\* Where statement s is in the list.
Position(stmts, s) == CHOOSE i \in 1 .. Len(stmts) : stmts[i] = s

\* The registers after one register statement.  px is the raw pixel read
\* through currentPixel and line the argument of activateAnode, for the
\* statements that use them.
RegStmt(r, s, px, line) ==
    CASE s \in DOMAIN AnodeCleared ->
             [r EXCEPT !.PIXEL_PORT = @ \ {AnodeCleared[s]}]
      [] s = "activateAnode" ->
             [r EXCEPT !.PIXEL_PORT = activateAnode(@, line)]
      [] s = "TCCR2A_connect" ->
             [r EXCEPT !.TCCR2A = {"COM2B1", "WGM01", "WGM00"}]
      [] s = "TCCR2A_disconnect" -> [r EXCEPT !.TCCR2A = {"WGM01", "WGM00"}]
      [] s = "TCCR2A_clear" -> [r EXCEPT !.TCCR2A = {}]
      [] s = "TCCR0A_pwm" ->
             [r EXCEPT !.TCCR0A = {"WGM00", "WGM01", "COM0A1", "COM0B1"}]
      [] s = "TCCR0A_clear" -> [r EXCEPT !.TCCR0A = {}]
      [] s = "SBI_LED_B_DDR" -> [r EXCEPT !.LED_B_DDR = TRUE]
      [] s = "CBI_LED_B_DDR" -> [r EXCEPT !.LED_B_DDR = FALSE]
      [] s = "SBI_BLUE_SINK_DDR" -> [r EXCEPT !.BLUE_SINK_DDR = TRUE]
      [] s = "CBI_BLUE_SINK_DDR" -> [r EXCEPT !.BLUE_SINK_DDR = FALSE]
      [] s = "OCR2B_load" -> [r EXCEPT !.OCR2B = px.rawValueB]
      [] s = "OCR2B_off" -> [r EXCEPT !.OCR2B = OFF]
      [] s = "OCR0A_load" -> [r EXCEPT !.OCR0A = px.rawValueR]
      [] s = "OCR0A_off" -> [r EXCEPT !.OCR0A = OFF]
      [] s = "OCR0B_load" -> [r EXCEPT !.OCR0B = px.rawValueG]
      [] s = "OCR0B_off" -> [r EXCEPT !.OCR0B = OFF]
      [] s = "OCR2A_half" -> [r EXCEPT !.OCR2A = 128]
      [] s = "holdTimers" -> [r EXCEPT !.GTCCR = holdTimers(@)]
      [] s = "releaseTimers" -> [r EXCEPT !.GTCCR = releaseTimers(@)]
      [] s = "TCCR0B_clock" -> [r EXCEPT !.TCCR0B = {"CS01"}]
      [] s = "TCCR2B_clock" -> [r EXCEPT !.TCCR2B = {"CS21"}]
      [] s = "TCCR0B_stop" -> [r EXCEPT !.TCCR0B = {}]
      [] s = "TCCR2B_stop" -> [r EXCEPT !.TCCR2B = {}]
      [] OTHER -> r

\* The compare values that can be in effect after a statement of
\* pixelTimersOn(), as CompareAtRelease has them for the whole call.
CompareAfter(r, c, s) ==
    CASE s = "OCR0A_off" ->
             { [c EXCEPT !.R = IF "WGM00" \in r.TCCR0A THEN @ ELSE OFF] }
      [] s = "OCR0B_off" ->
             { [c EXCEPT !.G = IF "WGM00" \in r.TCCR0A THEN @ ELSE OFF] }
      [] s = "releaseTimers" -> { c, [c EXCEPT !.B = OFF] }
      [] OTHER -> { c }

\* The interrupt flags that are raised and unmasked.
Servable ==
    { f \in irqFlags : \/ f = "TOV0" /\ "TOIE0" \in reg.TIMSK0
                       \/ f = "OCF2A" /\ "OCIE2A" \in reg.TIMSK2 }

\* An interrupt is taken before the next statement.
Preempted == sreg_I /\ Servable # {}

\* The frame of a handler that has just been entered.  k is its position in
\* the handler, at and j its position inside pixel_isr(); set and idx are
\* currentPixel, ph the value the switch read, v the value an increment
\* read, temp the local of the swap block.
NewFrame(vec) ==
    [vec |-> vec, k |-> 1, at |-> "", j |-> 0, set |-> 0, idx |-> 0,
     ph |-> 0, v |-> 0, temp |-> 0]

Top == stack[Len(stack)]

\* The innermost frame replaced by f.
SetTop(f) == [stack EXCEPT ![Len(stack)] = f]

\* The values a read through currentPixel can give: the slot pointed to,
\* or, for a pointer past the end of the set, whatever is there.
PointedPixels(f) ==
    IF f.idx \in Pixels
    THEN { rawpixelsetbuffer[f.set][f.idx] }
    ELSE { rawpixel_t(OFF, OFF, OFF), rawpixel_t(0, 0, 0) }

\* The counters advance by half a PWM cycle: to the compare match with
\* OCR2A, or to the overflow, where the compare values are latched and a new
\* overflow period begins.  An interrupt raised before the handlers of the
\* earlier ones have returned is a missed deadline; limit bounds how many
\* there are.
CounterTick(limit) ==
    /\ Timer2Counting
    /\ IF stack = <<>> /\ irqFlags = {}
       THEN UNCHANGED missed
       ELSE missed < limit /\ missed' = missed + 1
    /\ tcntHalf' = 1 - tcntHalf
    /\ IF tcntHalf = 0
       THEN /\ irqFlags' = irqFlags \cup {"OCF2A"}
            /\ UNCHANGED <<compare, periodLog, periodFull>>
       ELSE /\ irqFlags' =
                   irqFlags \cup (IF Timer0Counting THEN {"TOV0"} ELSE {})
            /\ compare' = [R |-> IF Timer0Counting THEN reg.OCR0A ELSE compare.R,
                           G |-> IF Timer0Counting THEN reg.OCR0B ELSE compare.G,
                           B |-> reg.OCR2B]
            /\ periodLog' = <<>>
            /\ periodFull' = (Timer0Counting /\ stack = <<>>)
    /\ UNCHANGED <<frameVars, cursorVars, pendingRawPixelBufferSwap, reg, pc,
                   memcpyVars, callVars, historyVars, reqRoles, sreg_I,
                   stack, stmt>>

\* Every handler returns before the next interrupt is raised.
StepTick == CounterTick(0)

\* An interrupt can be raised while handlers run.
NestTick == CounterTick(MaxMissed)

\* Interrupt entry: the flag is cleared, the global enable is cleared and
\* the handler starts.
isr_enter ==
    /\ Preempted
    /\ \E f \in Servable :
           /\ irqFlags' = irqFlags \ {f}
           /\ stack' = Append(stack, NewFrame(VectorOf(f)))
    /\ sreg_I' = FALSE
    /\ UNCHANGED <<frameVars, cursorVars, pendingRawPixelBufferSwap, reg, pc,
                   memcpyVars, callVars, historyVars, missed, reqRoles, compare,
                   tcntHalf, stmt, periodLog, periodFull>>

\* A handler runs one of its callbacks, or sei().
isr_stmt ==
    /\ stack # <<>>
    /\ ~Preempted
    /\ Top.at = ""
    /\ LET s == VectorBody(Top.vec)[Top.k] IN
           /\ s \in {"timer_256us_callback_cli", "sei",
                     "timer_256us_callback_sei", "timer_512us_callback_sei"}
           /\ sreg_I' = IF s = "sei" THEN TRUE ELSE sreg_I
           /\ periodLog' = IF periodFull
                            THEN Append(periodLog, <<Top.vec, s>>)
                            ELSE periodLog
    /\ stack' = SetTop([Top EXCEPT !.k = @ + 1])
    /\ UNCHANGED <<frameVars, cursorVars, pendingRawPixelBufferSwap, reg, pc,
                   memcpyVars, callVars, historyVars, missed, reqRoles, compare,
                   tcntHalf, irqFlags, stmt, periodFull>>

\* The handler returns: the global enable is set again.
isr_return ==
    /\ stack # <<>>
    /\ ~Preempted
    /\ Top.at = ""
    /\ VectorBody(Top.vec)[Top.k] = "reti"
    /\ stack' = SubSeq(stack, 1, Len(stack) - 1)
    /\ sreg_I' = TRUE
    /\ UNCHANGED <<frameVars, cursorVars, pendingRawPixelBufferSwap, reg, pc,
                   memcpyVars, callVars, historyVars, missed, reqRoles, compare,
                   tcntHalf, irqFlags, stmt, periodLog, periodFull>>

\* pixel_isr() is called and computes currentPixel.
pixel_isr_call ==
    /\ stack # <<>>
    /\ ~Preempted
    /\ Top.at = ""
    /\ VectorBody(Top.vec)[Top.k] = "pixel_isr"
    /\ stack' = SetTop([Top EXCEPT !.at = "switch",
                                   !.set = displayedRawPixelSet,
                                   !.idx = currentPixelIndex])
    /\ UNCHANGED <<frameVars, cursorVars, pendingRawPixelBufferSwap, reg, pc,
                   memcpyVars, callVars, historyVars, missed, reqRoles, compare,
                   tcntHalf, irqFlags, sreg_I, stmt, periodLog, periodFull>>

\* switch (phase)
pixel_isr_switch ==
    /\ stack # <<>>
    /\ ~Preempted
    /\ Top.at = "switch"
    /\ stack' = SetTop([Top EXCEPT !.at = "case", !.ph = phase, !.j = 1])
    /\ UNCHANGED <<frameVars, cursorVars, pendingRawPixelBufferSwap, reg, pc,
                   memcpyVars, callVars, historyVars, missed, reqRoles, compare,
                   tcntHalf, irqFlags, sreg_I, stmt, periodLog, periodFull>>

\* One statement of the case taken.  phase and currentPixelIndex are not
\* volatile: where the handler uses one it has read before, the value is the
\* one read then or the one in memory now.
pixel_isr_case ==
    /\ stack # <<>>
    /\ ~Preempted
    /\ Top.at = "case"
    /\ Top.j <= Len(CaseBlock(Top.ph))
    /\ LET f == Top
           block == CaseBlock(f.ph)
           s == block[f.j]
           next == [f EXCEPT !.j = @ + 1]
           end == [f EXCEPT !.j = Len(block) + 1]
       IN  CASE s = "if_blue" ->
                    /\ \E px \in PointedPixels(f) :
                           stack' = SetTop(IF px.rawValueB # OFF
                                           THEN next
                                           ELSE [f EXCEPT !.j = Position(block, "phase_read")])
                    /\ UNCHANGED <<reg, cursorVars, displayedRawPixelSet,
                                   bufferedRawPixelSet,
                                   pendingRawPixelBufferSwap>>
             [] s = "phase_read" ->
                    /\ \E v \in {f.ph, phase} :
                           stack' = SetTop([next EXCEPT !.v = v])
                    /\ UNCHANGED <<reg, cursorVars, displayedRawPixelSet,
                                   bufferedRawPixelSet,
                                   pendingRawPixelBufferSwap>>
             [] s = "phase_write" ->
                    /\ phase' = Inc8(f.v)
                    /\ stack' = SetTop(next)
                    /\ UNCHANGED <<reg, currentPixelIndex, displayedRawPixelSet,
                                   bufferedRawPixelSet,
                                   pendingRawPixelBufferSwap>>
             [] s = "phase_zero" ->
                    /\ phase' = 0
                    /\ stack' = SetTop(next)
                    /\ UNCHANGED <<reg, currentPixelIndex, displayedRawPixelSet,
                                   bufferedRawPixelSet,
                                   pendingRawPixelBufferSwap>>
             [] s = "index_read" ->
                    /\ \E v \in {f.idx, currentPixelIndex} :
                           stack' = SetTop([next EXCEPT !.v = v])
                    /\ UNCHANGED <<reg, cursorVars, displayedRawPixelSet,
                                   bufferedRawPixelSet,
                                   pendingRawPixelBufferSwap>>
             [] s = "index_write" ->
                    /\ currentPixelIndex' = Inc8(f.v)
                    /\ stack' = SetTop(next)
                    /\ UNCHANGED <<reg, phase, displayedRawPixelSet,
                                   bufferedRawPixelSet,
                                   pendingRawPixelBufferSwap>>
             [] s = "if_wrapped" ->
                    /\ \E i \in {Inc8(f.v), currentPixelIndex} :
                           stack' = SetTop(IF i = PIXEL_COUNT THEN next ELSE end)
                    /\ UNCHANGED <<reg, cursorVars, displayedRawPixelSet,
                                   bufferedRawPixelSet,
                                   pendingRawPixelBufferSwap>>
             [] s = "index_zero" ->
                    /\ currentPixelIndex' = 0
                    /\ stack' = SetTop(next)
                    /\ UNCHANGED <<reg, phase, displayedRawPixelSet,
                                   bufferedRawPixelSet,
                                   pendingRawPixelBufferSwap>>
             [] s = "if_pending" ->
                    /\ stack' = SetTop(IF pendingRawPixelBufferSwap # 0
                                       THEN next ELSE end)
                    /\ UNCHANGED <<reg, cursorVars, displayedRawPixelSet,
                                   bufferedRawPixelSet,
                                   pendingRawPixelBufferSwap>>
             [] s = "temp_load" ->
                    /\ stack' = SetTop([next EXCEPT !.temp = displayedRawPixelSet])
                    /\ UNCHANGED <<reg, cursorVars, displayedRawPixelSet,
                                   bufferedRawPixelSet,
                                   pendingRawPixelBufferSwap>>
             [] s = "displayed_store" ->
                    /\ displayedRawPixelSet' = bufferedRawPixelSet
                    /\ stack' = SetTop(next)
                    /\ UNCHANGED <<reg, cursorVars, bufferedRawPixelSet,
                                   pendingRawPixelBufferSwap>>
             [] s = "buffered_store" ->
                    /\ bufferedRawPixelSet' = f.temp
                    /\ stack' = SetTop(next)
                    /\ UNCHANGED <<reg, cursorVars, displayedRawPixelSet,
                                   pendingRawPixelBufferSwap>>
             [] s = "pending_clear" ->
                    /\ pendingRawPixelBufferSwap' = 0
                    /\ stack' = SetTop(next)
                    /\ UNCHANGED <<reg, cursorVars, displayedRawPixelSet,
                                   bufferedRawPixelSet>>
             [] OTHER ->
                    /\ \E px \in PointedPixels(f),
                          line \in {f.idx, currentPixelIndex} :
                           reg' = RegStmt(reg, s, px, line)
                    /\ stack' = SetTop(next)
                    /\ UNCHANGED <<cursorVars, displayedRawPixelSet,
                                   bufferedRawPixelSet,
                                   pendingRawPixelBufferSwap>>
    /\ UNCHANGED <<rawpixelsetbuffer, pc, memcpyVars, callVars, historyVars,
                   missed, reqRoles, compare, tcntHalf, irqFlags, sreg_I, stmt,
                   periodLog, periodFull>>

\* pixel_isr() returns to the overflow handler.
pixel_isr_return ==
    /\ stack # <<>>
    /\ ~Preempted
    /\ Top.at = "case"
    /\ Top.j > Len(CaseBlock(Top.ph))
    /\ stack' = SetTop([Top EXCEPT !.at = "", !.j = 0, !.k = @ + 1])
    /\ periodLog' = IF periodFull
                     THEN Append(periodLog, <<Top.vec, "pixel_isr">>)
                     ELSE periodLog
    /\ UNCHANGED <<frameVars, cursorVars, pendingRawPixelBufferSwap, reg, pc,
                   memcpyVars, callVars, historyVars, missed, reqRoles, compare,
                   tcntHalf, irqFlags, sreg_I, stmt, periodFull>>

\* The foreground executes its next statement: no handler is running and no
\* interrupt is to be taken first.
ForegroundRuns == stack = <<>> /\ ~Preempted

\* pixel_enable(): one statement of pixelTimersOn().  Writing TCNT0 and
\* TCNT2 puts the counters at the start of a PWM cycle.
pixelTimersOn_stmt ==
    /\ ForegroundRuns
    /\ \/ pc = "idle" /\ ~Timer0Counting /\ ~Timer2Counting
       \/ pc = "enable"
    /\ LET s == pixelTimersOn_stmts[stmt + 1]
           last == stmt + 1 = Len(pixelTimersOn_stmts)
       IN  /\ reg' = RegStmt(reg, s, currentPixel, currentPixelIndex)
           /\ compare' \in CompareAfter(reg, compare, s)
           /\ tcntHalf' = IF s \in {"TCNT0_zero", "TCNT2_zero"}
                          THEN 0 ELSE tcntHalf
           /\ pc' = IF last THEN "idle" ELSE "enable"
           /\ stmt' = IF last THEN 0 ELSE stmt + 1
           /\ enableCalled' = (enableCalled \/ last)
           /\ periodLog' = IF last THEN <<>> ELSE periodLog
           /\ periodFull' = (periodFull /\ ~last)
    /\ UNCHANGED <<frameVars, cursorVars, pendingRawPixelBufferSwap,
                   memcpyVars, nWrites, nRequests, historyVars, missed, reqRoles,
                   irqFlags, sreg_I, stack>>

\* pixel_disable(): one statement of pixelTimerOff().  Stopping timer 0 ends
\* the overflow period in progress.
pixelTimerOff_stmt ==
    /\ ForegroundRuns
    /\ \/ pc = "idle" /\ Timer0Counting
       \/ pc = "disable"
    /\ LET s == pixelTimerOff_stmts[stmt + 1]
           last == stmt + 1 = Len(pixelTimerOff_stmts)
       IN  /\ reg' = RegStmt(reg, s, currentPixel, currentPixelIndex)
           /\ pc' = IF last THEN "idle" ELSE "disable"
           /\ stmt' = IF last THEN 0 ELSE stmt + 1
           /\ periodLog' = IF s = "TCCR0B_stop" THEN <<>> ELSE periodLog
           /\ periodFull' = (periodFull /\ s # "TCCR0B_stop")
    /\ UNCHANGED <<frameVars, cursorVars, pendingRawPixelBufferSwap,
                   memcpyVars, callVars, historyVars, missed, reqRoles, compare,
                   tcntHalf, irqFlags, sreg_I, stack>>

\* The other foreground calls, between the handlers.
stmt_pixel_init == ForegroundRuns /\ pixel_init

stmt_pixel_bufferedSetPixelRaw(pixel, r_pwm, g_pwm, b_pwm) ==
    ForegroundRuns /\ pixel_bufferedSetPixelRaw(pixel, r_pwm, g_pwm, b_pwm)

stmt_display_request == ForegroundRuns /\ display_request

stmt_display_poll == ForegroundRuns /\ display_poll

stmt_memcpy_step == ForegroundRuns /\ memcpy_step

------------------------------------------------------------------------------
(* Specifications *)

Next ==
    \/ pixel_init
    \/ pixel_enable
    \/ pixel_disable
    \/ \E pixel \in PixelInputs, t \in RawInputs :
           pixel_bufferedSetPixelRaw(pixel, t[1], t[2], t[3])
    \/ \E pixel \in PixelInputs, c \in ColorInputs :
           pixel_bufferedSetPixel(pixel, c)
    \/ display_request
    \/ display_poll
    \/ memcpy_step
    \/ TIMER0_OVF
    \/ TIMER2_COMPA

Spec == Init /\ [][Next]_vars

\* The display calls alone, with the handler steps counted.
WaitNext ==
    \/ pixel_init
    \/ pixel_enable
    \/ pixel_disable
    \/ display_request
    \/ display_poll
    \/ memcpy_step
    \/ TIMER0_OVF_counted

\* The timer hardware keeps raising the overflow interrupt while timer 0
\* counts, and the processor keeps executing the foreground call.
WaitSpec ==
    /\ Init
    /\ [][WaitNext]_vars
    /\ WF_vars(TIMER0_OVF_counted)
    /\ WF_vars(display_poll)
    /\ WF_vars(memcpy_step)

\* The display call with the two power calls made from callbacks while the
\* call waits.
CallbackNext ==
    \/ pixel_init
    \/ pixel_enable
    \/ pixel_disable
    \/ display_request
    \/ display_poll
    \/ memcpy_step
    \/ TIMER0_OVF
    \/ callback_pixel_disable
    \/ callback_pixel_enable

CallbackSpec ==
    /\ Init
    /\ [][CallbackNext]_vars
    /\ WF_vars(TIMER0_OVF)
    /\ WF_vars(display_poll)
    /\ WF_vars(memcpy_step)

\* The gamma lookup alone: colour writes after initialisation.
GammaNext ==
    \/ pixel_init
    \/ \E pixel \in PixelInputs, c \in GammaInputs :
           pixel_bufferedSetPixel(pixel, c)

GammaSpec == Init /\ [][GammaNext]_vars

\* The statement-level model with every handler returning before the next
\* interrupt is raised (the handlers meet their deadline).
StepNext ==
    \/ stmt_pixel_init
    \/ pixelTimersOn_stmt
    \/ pixelTimerOff_stmt
    \/ \E pixel \in StepPixelInputs, t \in RawInputs :
           stmt_pixel_bufferedSetPixelRaw(pixel, t[1], t[2], t[3])
    \/ stmt_display_request
    \/ stmt_display_poll
    \/ stmt_memcpy_step
    \/ StepTick
    \/ isr_enter
    \/ isr_stmt
    \/ pixel_isr_call
    \/ pixel_isr_switch
    \/ pixel_isr_case
    \/ pixel_isr_return
    \/ isr_return

StepSpec == Init /\ [][StepNext]_vars

\* The statement-level model with interrupts raised while handlers run (a
\* handler misses its deadline and is re-entered).
NestNext ==
    \/ stmt_pixel_init
    \/ pixelTimersOn_stmt
    \/ stmt_display_request
    \/ stmt_display_poll
    \/ stmt_memcpy_step
    \/ NestTick
    \/ isr_enter
    \/ isr_stmt
    \/ pixel_isr_call
    \/ pixel_isr_switch
    \/ pixel_isr_case
    \/ pixel_isr_return
    \/ isr_return

NestSpec == Init /\ [][NestNext]_vars

------------------------------------------------------------------------------
(* Properties *)

AllOff == rawpixelset_t(rawpixel_t(OFF, OFF, OFF))

\* An overflow-handler step that runs phase 4 and wraps the pixel cursor.
WrapStep ==
    /\ phase = TIMER_PHASE_COUNT - 1
    /\ currentPixelIndex = PIXEL_COUNT - 1
    /\ phase' = 0
    /\ currentPixelIndex' = 0

\* A step that exchanges or otherwise changes the two roles.
RolesChange ==
    \/ displayedRawPixelSet' # displayedRawPixelSet
    \/ bufferedRawPixelSet' # bufferedRawPixelSet

\* C1: the displayed/buffered roles change only in the handler step that
\* runs phase 4 and wraps the pixel cursor from 5 to 0; every other handler
\* step (every other step that moves the phase cursor) leaves the displayed
\* set unchanged, both which buffer it is and what it holds.
C1_SwapOnlyAtFrameBoundary ==
    [][ /\ RolesChange => WrapStep
        /\ (phase' # phase /\ ~WrapStep) =>
               /\ displayedRawPixelSet' = displayedRawPixelSet
               /\ rawpixelsetbuffer'[displayedRawPixelSet'] =
                      rawpixelsetbuffer[displayedRawPixelSet] ]_vars

\* A swap requested with new contents buffered, handler steps run since,
\* the cursor in the middle of a scan.
C1_Witness ==
    /\ waited
    /\ pendingRawPixelBufferSwap = 1
    /\ Buffered # Displayed
    /\ currentPixelIndex = 2
    /\ phase = TIMER_PHASE_COUNT - 1

\* C2: once pixel_init() has returned, the displayed set always holds what
\* it held at the most recent swap (or at initialization); every step that
\* changes the frame store is taken with the swap flag clear and leaves the
\* displayed set as it was.
C2_ForegroundWritesInvisible ==
    /\ [](pc # "boot" => Displayed = shownAtSwap)
    /\ [][ (pc # "boot" /\ rawpixelsetbuffer' # rawpixelsetbuffer) =>
               /\ pendingRawPixelBufferSwap = 0
               /\ pendingRawPixelBufferSwap' = 0
               /\ displayedRawPixelSet' = displayedRawPixelSet
               /\ rawpixelsetbuffer'[displayedRawPixelSet] =
                      rawpixelsetbuffer[displayedRawPixelSet] ]_vars

\* The post-swap copy is half done, the handler has stepped since the swap,
\* and the set on display differs from the one being overwritten.
C2_Witness ==
    /\ pc = "copy"
    /\ memcpyPos = 3
    /\ phase = 2
    /\ Displayed # AllOff
    /\ Buffered # Displayed

\* C3: after a raw write to a pixel that is followed by a display call, the
\* displayed slot of that pixel holds exactly the written triple from the
\* return of the display call on (until the next write).
C3_RawRoundTrip ==
    (nReturned > 0 /\ ~dirty /\ lastRaw # <<>>) =>
        Displayed[lastRaw[1]] = rawpixel_t(lastRaw[2], lastRaw[3], lastRaw[4])

\* A display call has returned after a raw write to the last pixel.
C3_Witness ==
    /\ nReturned > 0
    /\ ~dirty
    /\ pc = "idle"
    /\ lastRaw = <<PIXEL_COUNT - 1, 7, 9, 128>>
    /\ Displayed[PIXEL_COUNT - 1] = rawpixel_t(7, 9, 128)

\* C4: while the flag is set fewer than 30 handler steps have run since it
\* was set (so the 30th step at the latest clears it), and a display call
\* waiting with the timers running returns.
C4_BoundedWait ==
    /\ [](pendingRawPixelBufferSwap # 0 => waitSteps < ScanSteps)
    /\ (pc = "wait" /\ Timer0Counting) ~> (pc = "idle")

\* The longest wait: 29 steps have run and the flag is still set.
C4_Witness ==
    /\ pendingRawPixelBufferSwap = 1
    /\ Timer0Counting
    /\ waitSteps = ScanSteps - 1

\* C5: after pixel_init() has returned both timers count, without any
\* call of pixel_enable().
C5_InitStartsTimers ==
    (pc # "boot" /\ ~enableCalled) => (Timer0Counting /\ Timer2Counting)

\* C6: from the return of a display call until the next write, the buffered
\* set equals the displayed set slot for slot.
C6_Continuity ==
    (nReturned > 0 /\ ~dirty) => Buffered = Displayed

\* A display call has returned after a write, so the copy had a stale set to
\* overwrite.
C6_Witness ==
    /\ nReturned > 0
    /\ ~dirty
    /\ pc = "idle"
    /\ Displayed # AllOff

\* C7: from the return of a display call until the next write, every slot
\* of the displayed set holds the latest write to that pixel (the off value
\* if there was none).
C7_PartialUpdatesAccumulate ==
    (nReturned > 0 /\ ~dirty) => Displayed = lastWrite

\* Two displays, each after a write to a different pixel: the pixel written
\* before the first display is still shown after the second, next to the
\* pixel written in between, and a third pixel has never been written.
C7_Witness ==
    /\ nReturned = 2
    /\ ~dirty
    /\ pc = "idle"
    /\ shownBefore[0] # rawpixel_t(OFF, OFF, OFF)
    /\ Displayed[0] = shownBefore[0]
    /\ shownBefore[3] = rawpixel_t(OFF, OFF, OFF)
    /\ Displayed[3] # rawpixel_t(OFF, OFF, OFF)
    /\ Displayed[1] = rawpixel_t(OFF, OFF, OFF)

\* C8: the exchanges made so far plus the pending request are exactly the
\* display calls made so far; the flag is set only by the first step of a
\* display call and cleared only by a wraparound step that exchanges the
\* roles; a wraparound step exchanges the roles if and only if the flag is
\* set.
C8_OneExchangePerRequest ==
    /\ [](nSwaps + pendingRawPixelBufferSwap = nRequests)
    /\ [][ /\ (pendingRawPixelBufferSwap = 0 /\ pendingRawPixelBufferSwap' # 0)
                  => (pc = "idle" /\ pc' = "wait")
           /\ (pendingRawPixelBufferSwap # 0 /\ pendingRawPixelBufferSwap' = 0)
                  => (WrapStep /\ RolesChange)
           /\ (WrapStep /\ pendingRawPixelBufferSwap = 0) => ~RolesChange
           /\ (WrapStep /\ pendingRawPixelBufferSwap # 0) =>
                  /\ displayedRawPixelSet' = bufferedRawPixelSet
                  /\ bufferedRawPixelSet' = displayedRawPixelSet
                  /\ pendingRawPixelBufferSwap' = 0 ]_vars

\* Two display calls have returned and the cursor has since wrapped again
\* with the flag clear.
C8_Witness ==
    /\ nRequests = 2
    /\ nReturned = 2
    /\ nSwaps = 2
    /\ currentPixelIndex = PIXEL_COUNT - 1
    /\ reg.PIXEL_PORT = {PIXEL_COUNT - 1}

\* C9: the two references always designate the two different buffers.
C9_RolePartition ==
    /\ displayedRawPixelSet \in Buffers
    /\ bufferedRawPixelSet \in Buffers
    /\ displayedRawPixelSet # bufferedRawPixelSet

\* After an exchange: buffer 1 is displayed, buffer 0 buffered.
C9_Witness ==
    /\ nSwaps = 1
    /\ displayedRawPixelSet = 1
    /\ bufferedRawPixelSet = 0

\* C10: when a display call returns that had no write since the previous
\* display call returned, the displayed set holds what it held when that
\* previous call returned.
C10_IdempotentDisplay ==
    cleanDisplay =>
        /\ shownAtReturn = shownBefore
        /\ (pc = "idle" => Displayed = shownBefore)

\* Two display calls in a row, made after a write.
C10_Witness ==
    /\ cleanDisplay
    /\ pc = "idle"
    /\ nReturned = 2
    /\ Displayed # AllOff

\* The cursor as a position in the scan: five phases per pixel.
CursorPosition == currentPixelIndex * TIMER_PHASE_COUNT + phase

\* One round-robin move of the cursor.
CursorAdvances ==
    IF phase < TIMER_PHASE_COUNT - 1
    THEN /\ currentPixelIndex' = currentPixelIndex
         /\ phase' = phase + 1
    ELSE /\ currentPixelIndex' = (currentPixelIndex + 1) % PIXEL_COUNT
         /\ phase' = 0

\* C11: the cursor starts at (0,0) and stays within pixel 0..5 and phase
\* 0..4; its position in the scan is the number of overflow-handler steps run
\* so far modulo 30, so 30 steps from (0,0) lead back to (0,0) and no fewer
\* do; every handler step moves it by one round-robin move whatever the
\* pixel values and the flag are; the flag is examined exactly once in the 30
\* steps of a scan, by the last of them; and no step other than a handler
\* step (no foreground call, no compare-match handler) changes the cursor.
C11_CursorRoundRobin ==
    /\ [](/\ currentPixelIndex \in Pixels
          /\ phase \in 0 .. (TIMER_PHASE_COUNT - 1)
          /\ CursorPosition = ovfSteps
          /\ (ovfSteps # 0 => flagChecks = 0))
    /\ [][ /\ (ovfSteps' # ovfSteps) =>
                  /\ CursorAdvances
                  /\ (ovfSteps' = 0 => flagChecks' = 1)
           /\ (cursorVars' # cursorVars) => (ovfSteps' # ovfSteps) ]_vars

\* A full scan has run, with a disable in it, and the cursor is back at
\* (0,0) with the flag examined once.
C11_Witness ==
    /\ flagChecks = 1
    /\ ovfSteps = 0
    /\ currentPixelIndex = 0
    /\ phase = 0
    /\ disabled
    /\ nReturned = 1

\* The colour channels whose compare value in effect is not the off value.
ChannelsOn == { ch \in {"R", "G", "B"} : compare[ch] # OFF }

\* C12: while the counters run, at most one of the three compare values in
\* effect differs from 255.
C12_OneChannelAtATime ==
    (Timer0Counting \/ Timer2Counting) => Cardinality(ChannelsOn) <= 1

\* Green is in effect for pixel 3, which has all three channels on: the
\* phase-4 step has latched it and moved the cursor to pixel 4.
C12_Witness ==
    /\ Timer0Counting
    /\ compare = [R |-> OFF, G |-> 9, B |-> OFF]
    /\ Displayed[3] = rawpixel_t(7, 9, 128)
    /\ currentPixelIndex = 4
    /\ phase = 0
    /\ reg.OCR0B = OFF

\* C13: after pixel_disable() has returned the blue drive pin is an input
\* and timer 2 is not connected to it.
C13_BluePinFloatsAfterDisable ==
    disabled => (~reg.LED_B_DDR /\ "COM2B1" \notin reg.TCCR2A)

\* C14: after pixel_disable() has returned and until pixel_enable() is
\* called, neither counter counts, neither handler can run, all six anode
\* lines are low and the pump sink is an input.
C14_DisableSafeState ==
    disabled =>
        /\ ~Timer0Counting
        /\ ~Timer2Counting
        /\ ~ENABLED TIMER0_OVF
        /\ ~ENABLED TIMER2_COMPA
        /\ reg.PIXEL_PORT \cap Pixels = {}
        /\ ~reg.BLUE_SINK_DDR

\* Disabled in the middle of pixel 3, which has all three channels on: the
\* anode of pixel 3 was high and blue was loaded when the call was made.
C14_Witness ==
    /\ disabled
    /\ resume = <<3, 2>>
    /\ Displayed[3] = rawpixel_t(7, 9, 128)
    /\ reg.OCR2B = 128

\* A step of pixel_disable() or of pixel_enable().
PowerStep == (disabled' # disabled) \/ (fresh' /\ ~fresh)

\* C15: pixel_disable() and pixel_enable() leave the two sets, the roles,
\* the flag and the cursor as they were; the first handler step after the
\* pixels are enabled again runs the phase of the stored cursor for the
\* stored pixel (from phase 1 it raises that pixel's anode) and moves the
\* cursor on from there.
C15_DisableEnablePreservesScan ==
    [][ /\ PowerStep =>
               UNCHANGED <<frameVars, cursorVars, pendingRawPixelBufferSwap>>
        /\ (resume # <<>> /\ ovfSteps' # ovfSteps) =>
               /\ <<currentPixelIndex, phase>> = resume
               /\ CursorAdvances
               /\ (resume[2] = 1 => reg'.PIXEL_PORT = {resume[1]}) ]_vars

\* Enabled again after a disable at phase 1 of the last pixel, with a write
\* not yet displayed; no handler step has run since.
C15_Witness ==
    /\ fresh
    /\ resume = <<PIXEL_COUNT - 1, 1>>
    /\ Buffered # Displayed
    /\ Displayed # AllOff

C18_InitFillsStore ==
    (pc # "boot" /\ nWrites = 0) =>
        \A i \in Buffers : \A j \in Pixels :
            rawpixelsetbuffer[i][j] = rawpixel_t(OFF, OFF, OFF)

\* Initialised and displayed once with no write made: the exchange and the
\* copy have gone over both buffers.
C18_Witness ==
    /\ pc = "idle"
    /\ nWrites = 0
    /\ nReturned = 1
    /\ displayedRawPixelSet = 1
    /\ rawpixelsetbuffer[0][PIXEL_COUNT - 1] = rawpixel_t(OFF, OFF, OFF)

\* The raw pixel the three tables give for colour c.
GammaTriple(c) ==
    rawpixel_t(gamma8R[c[1] + 1], gamma8G[c[2] + 1], gamma8B[c[3] + 1])

\* C19: a colour write changes the frame store in exactly one place, the
\* written pixel's slot of the buffered set, which gets the three table
\* values; from the return of the next display call until the next write the
\* displayed slot of that pixel holds them, and if the colour write was the
\* only write before that call the other five displayed slots hold what they
\* held before it.  After initialisation, colour (31,0,0) written to pixel 0
\* and displayed shows (1,255,255) in slot 0 and (255,255,255) elsewhere.
C19_GammaMappedWrite ==
    /\ [][ (nWrites' # nWrites /\ lastColor' # <<>>) =>
               rawpixelsetbuffer' =
                   [rawpixelsetbuffer EXCEPT
                        ![bufferedRawPixelSet][lastColor'[1]] =
                            GammaTriple(lastColor'[2])] ]_vars
    /\ []((nReturned > 0 /\ ~dirty /\ lastColor # <<>>) =>
              /\ Displayed[lastColor[1]] = GammaTriple(lastColor[2])
              /\ (shownWrites = 1 =>
                     \A j \in Pixels \ {lastColor[1]} :
                         Displayed[j] = shownBefore[j]))
    /\ []((nReturned > 0 /\ ~dirty /\ nWrites = 1
              /\ lastColor = <<0, <<31, 0, 0>>>>) =>
              Displayed = [AllOff EXCEPT ![0] = rawpixel_t(1, OFF, OFF)])

\* A raw write to pixel 0 displayed, then colour (31,0,0) written to pixel 3
\* and displayed: slot 3 shows the table values, slot 0 still the raw ones.
C19_Witness ==
    /\ pc = "idle"
    /\ nReturned = 2
    /\ ~dirty
    /\ shownWrites = 1
    /\ lastColor = <<3, <<31, 0, 0>>>>
    /\ Displayed[3] = rawpixel_t(1, OFF, OFF)
    /\ Displayed[0] = rawpixel_t(7, 9, 128)

\* Component k (1 red, 2 green, 3 blue) of a raw pixel.
Channel(p, k) ==
    IF k = 1 THEN p.rawValueR ELSE IF k = 2 THEN p.rawValueG ELSE p.rawValueB

\* C20: for every pixel written with a colour, each stored component is in
\* 0..255 and is 255 where the colour component is 0; for any two such
\* pixels and each component, the one written with the smaller or equal
\* colour component holds the larger or equal stored value.
C20_GammaMonotone ==
    \A i \in Pixels : \A k \in 1 .. 3 :
        colorOf[i] # <<>> =>
            /\ Channel(lastWrite[i], k) \in 0 .. OFF
            /\ (colorOf[i][k] = 0 => Channel(lastWrite[i], k) = OFF)
            /\ \A j \in Pixels :
                   (colorOf[j] # <<>> /\ colorOf[i][k] <= colorOf[j][k]) =>
                       Channel(lastWrite[i], k) >= Channel(lastWrite[j], k)

\* The two ends of the red and blue tables and two neighbouring entries of
\* the green one have been looked up.
C20_Witness ==
    /\ colorOf[0] = <<0, 11, 31>>
    /\ colorOf[3] = <<31, 10, 0>>
    /\ lastWrite[0] = rawpixel_t(255, 224, 1)
    /\ lastWrite[3] = rawpixel_t(1, 230, 255)

\* The compare values in effect with only channel ch on, at value v.
OnlyChannel(ch, v) == [c \in {"R", "G", "B"} |-> IF c = ch THEN v ELSE OFF]

C27_BlueDriveOnlyForBluePixels ==
    (Timer0Counting /\ phase >= 1 /\ currentPixel.rawValueB = OFF) =>
        /\ ~reg.BLUE_SINK_DDR
        /\ ~reg.LED_B_DDR
        /\ "COM2B1" \notin reg.TCCR2A

------------------------------------------------------------------------------
(* Properties of the statement-level model *)

\* The prescale factor a clock-select value gives (clkIO/8 for CS01 of
\* timer 0 and for CS21 of timer 2); 0 for a stopped counter.
Prescaler(cs) == IF cs \in {{"CS01"}, {"CS21"}} THEN 8 ELSE 0

\* A step that writes a clock-select register with a clock, or that releases
\* the synchronised hold.
C21_ClockStep ==
    /\ (reg'.TCCR0B # reg.TCCR0B /\ reg'.TCCR0B # {}) =>
           "TSM" \in reg.GTCCR
    /\ (reg'.TCCR2B # reg.TCCR2B /\ reg'.TCCR2B # {}) =>
           "TSM" \in reg.GTCCR
    /\ ("TSM" \in reg.GTCCR /\ "TSM" \notin reg'.GTCCR) =>
           /\ Prescaler(reg.TCCR0B) # 0
           /\ Prescaler(reg.TCCR0B) = Prescaler(reg.TCCR2B)
           /\ reg'.TCCR0B = reg.TCCR0B
           /\ reg'.TCCR2B = reg.TCCR2B
           /\ tcntHalf' = 0

OverflowPeriod ==
    <<<<"TIMER0_OVF", "timer_256us_callback_cli">>,
      <<"TIMER0_OVF", "sei">>,
      <<"TIMER0_OVF", "pixel_isr">>,
      <<"TIMER0_OVF", "timer_256us_callback_sei">>,
      <<"TIMER0_OVF", "timer_512us_callback_sei">>,
      <<"TIMER2_COMPA", "timer_256us_callback_cli">>,
      <<"TIMER2_COMPA", "sei">>,
      <<"TIMER2_COMPA", "timer_256us_callback_sei">>>>

IsPrefix(s, t) == Len(s) <= Len(t) /\ s = SubSeq(t, 1, Len(s))

\* The overflow that ends an overflow period begun by an overflow.
PeriodEnds ==
    periodFull /\ Timer0Counting /\ tcntHalf = 1 /\ tcntHalf' = 0

\* C22: callback points.  In every overflow period the masked double-rate
\* callback is invoked exactly twice, first by the overflow handler before
\* sei() and before the pixel step, then first thing by the compare-match
\* handler; the per-overflow callback is invoked exactly once, by the
\* overflow handler after the pixel step, and never by the compare-match
\* handler.
C22_CallbackPoints ==
    /\ [](periodFull => IsPrefix(periodLog, OverflowPeriod))
    /\ []((stack # <<>> /\ Top.k = 1) => ~sreg_I)
    /\ [][PeriodEnds => periodLog = OverflowPeriod]_vars

\* A whole overflow period has been run, with a swap in it.
C22_Witness ==
    /\ periodFull
    /\ periodLog = OverflowPeriod
    /\ phase = 0
    /\ currentPixelIndex = 0
    /\ displayedRawPixelSet = 1

\* The frames of handlers that are inside pixel_isr().
PixelFrames ==
    { i \in 1 .. Len(stack) : stack[i].at \in {"switch", "case"} }

\* C23: handshake ordering.  The flag is clear again after a request only
\* once both references are exchanged, so when the foreground sees it clear
\* the exchange is complete; the copy then reads from the set now displayed
\* and writes only into the other set, which no handler reads.
C23_HandshakeOrdering ==
    /\ (pc = "wait" /\ pendingRawPixelBufferSwap = 0) =>
           /\ displayedRawPixelSet = reqRoles[2]
           /\ bufferedRawPixelSet = reqRoles[1]
    /\ pc = "copy" =>
           /\ pendingRawPixelBufferSwap = 0
           /\ displayedRawPixelSet = reqRoles[2]
           /\ bufferedRawPixelSet = reqRoles[1]
           /\ memcpySrc = displayedRawPixelSet
           /\ memcpyDst = bufferedRawPixelSet
           /\ memcpyDst # displayedRawPixelSet
           /\ \A i \in PixelFrames : stack[i].set # memcpyDst

\* The copy of the second display call is under way while a handler is
\* inside pixel_isr().
C23_Witness ==
    /\ pc = "copy"
    /\ memcpyPos = 2
    /\ nRequests = 2
    /\ PixelFrames # {}
    /\ Top.ph = 1

\* The handler is inside the case of the given phase.
InCase(ph) == stack # <<>> /\ Top.at = "case" /\ Top.ph = ph

\* C24: pump sink and anodes are mutually exclusive.  In every state, also
\* between the register writes of a handler step and of pixel_disable(),
\* the sink is enabled only while all anode lines are low; it is enabled
\* only by a phase-0 step and disabled by the next phase-1 step before that
\* step activates an anode.
C24_SinkExcludesAnodes ==
    reg.BLUE_SINK_DDR =>
        /\ reg.PIXEL_PORT = {}
        /\ phase = 1 \/ InCase(0)
        /\ ~InCase(2) /\ ~InCase(3) /\ ~InCase(4)

\* pixel_disable() has stopped timer 0 and cleared three anode lines while
\* the sink is still enabled.
C24_Witness ==
    /\ reg.BLUE_SINK_DDR
    /\ pc = "disable"
    /\ stmt = 4
    /\ currentPixelIndex = 3

\* A step that raises an anode line, and the steps that end a phase-0 step
\* and pixel_disable().
C25_AnodeStep ==
    /\ ~(reg'.PIXEL_PORT \subseteq reg.PIXEL_PORT) =>
           /\ InCase(1)
           /\ reg'.PIXEL_PORT = {currentPixelIndex}
    /\ (InCase(0) /\ stack' # <<>> /\ stack'[Len(stack')].at = "") =>
           reg'.PIXEL_PORT = {}
    /\ (pc = "disable" /\ pc' = "idle") => reg'.PIXEL_PORT = {}

\* C25: one anode at a time.  In every state at most one anode line is high;
\* a line is made high only by a phase-1 step and it is the line of the
\* current pixel index; all lines are low after every phase-0 step and
\* after pixel_disable().
C25_OneAnodeAtATime ==
    /\ [](Cardinality(reg.PIXEL_PORT) <= 1)
    /\ [][C25_AnodeStep]_vars

\* The phase-1 step of pixel 3 has just raised its anode.
C25_Witness ==
    /\ InCase(1)
    /\ Top.j = 3
    /\ currentPixelIndex = 3
    /\ reg.PIXEL_PORT = {3}
    /\ Displayed[3] = rawpixel_t(7, 9, 128)

\* C28: a deadline miss is self-healing.  Once all handlers have returned
\* after an overflow handler was interrupted or re-entered, the cursor is in
\* range and the two references designate different buffers.
C28_DeadlineMissSelfHealing ==
    (stack = <<>> /\ irqFlags = {}) =>
        /\ currentPixelIndex < PIXEL_COUNT
        /\ phase < TIMER_PHASE_COUNT
        /\ displayedRawPixelSet # bufferedRawPixelSet

====
